---------------------------- MODULE Spec2Model ----------------------------
(***************************************************************************)
(* stream_magic: SSDP discovery (discovery.py) and the UPnP/SOAP device    *)
(* controller (device.py) as state machines.                               *)
(*                                                                         *)
(* Text received from the network is a sequence of one-character strings;  *)
(* the element "\n" stands for one line terminator.  XML documents are     *)
(* modelled as the element trees minidom hands to the code.                *)
(***************************************************************************)
EXTENDS Integers, Sequences, FiniteSets, TLC

VARIABLES
    devices,    \* discovery.StreamMagic.devices of the one Discovery instance
    dcall,      \* the last discover() call: arguments, list before it, outcome
    services,   \* device.StreamMagicDevice.services (class attribute)
    actions,    \* device.StreamMagicDevice.actions (class attribute)
    ctl,        \* the constructed StreamMagicDevice objects, in creation order
    last,       \* the last device-controller operation and what it did
    scpd,       \* the SCPD documents the last completed _update_actions pass read
    navigators, \* the navigator ids registered on the device, by host
    io          \* the network call the running operation is blocked in, if any

vars == <<devices, dcall, services, actions, ctl, last, scpd, navigators, io>>

None == "None"

----------------------------------------------------------------------------
(* Bounds of the model *)

MaxDevices == 3     \* entries the accumulated devices list may hold
MaxReplies == 2     \* datagrams received within one discover() call

----------------------------------------------------------------------------
(* Text helpers: str.lower, str.splitlines, str.split, str.startswith *)

UpperChars == <<"A","B","C","D","E","F","G","H","I","J","K","L","M","N","O","P","Q","R","S","T","U","V","W","X","Y","Z">>
LowerChars == <<"a","b","c","d","e","f","g","h","i","j","k","l","m","n","o","p","q","r","s","t","u","v","w","x","y","z">>

LowerChar(c) ==
    IF \E i \in 1..Len(UpperChars) : UpperChars[i] = c
    THEN LowerChars[CHOOSE i \in 1..Len(UpperChars) : UpperChars[i] = c]
    ELSE c

lower(s) == [i \in 1..Len(s) |-> LowerChar(s[i])]

startswith(s, p) == Len(s) >= Len(p) /\ SubSeq(s, 1, Len(p)) = p

\* index of the first occurrence of sep in s, 0 when there is none
Find(s, sep) ==
    LET hits == {i \in 1..(Len(s) - Len(sep) + 1) : SubSeq(s, i, i + Len(sep) - 1) = sep}
    IN  IF hits = {} THEN 0 ELSE CHOOSE i \in hits : \A j \in hits : i <= j

RECURSIVE splitlines(_)
splitlines(t) ==
    IF t = <<>> THEN <<>>
    ELSE LET i == Find(t, <<"\n">>)
         IN  IF i = 0 THEN <<t>>
             ELSE <<SubSeq(t, 1, i - 1)>> \o splitlines(SubSeq(t, i + 1, Len(t)))

RECURSIVE split(_, _)
split(s, sep) ==
    LET i == Find(s, sep)
    IN  IF i = 0 THEN <<s>>
        ELSE <<SubSeq(s, 1, i - 1)>> \o split(SubSeq(s, i + Len(sep), Len(s)), sep)

----------------------------------------------------------------------------
(* Discovery: discovery.py *)

KeyServer == <<"s","e","r","v","e","r">>
PrefixStreamMagic == <<"S","t","r","e","a","m","M","a","g","i","c">>
SepColonSpace == <<":"," ">>

\* dict.update({key: val})
DictUpdate(d, key, val) == [k \in (DOMAIN d) \cup {key} |-> IF k = key THEN val ELSE d[k]]

\* one header line, already split, to its (key, value) pair
HeaderPair(header) ==
    IF Len(header) > 1
    THEN [key |-> lower(header[1]), val |-> header[2]]
    ELSE [key |-> lower(header[1]), val |-> <<>>]

RECURSIVE HeaderDict(_, _)
HeaderDict(data, headers) ==
    IF headers = <<>> THEN data
    ELSE LET kv == HeaderPair(Head(headers))
         IN  HeaderDict(DictUpdate(data, kv.key, kv.val), Tail(headers))

\* the headers of one reply datagram as a dict
ParseReply(text) ==
    LET lines   == splitlines(text)
        headers == [i \in 1..(Len(lines) - 1) |-> split(lines[i + 1], SepColonSpace)]
    IN  HeaderDict(<<>>, headers)

\* variant: the family name anywhere in the server header
IsStreamMagicAnywhere(data) == Find(data[KeyServer], PrefixStreamMagic) # 0

\* data['server'].startswith("StreamMagic"); the caller has checked the key
IsStreamMagic(data) == startswith(data[KeyServer], PrefixStreamMagic)

\* addr not in [dev[0] for dev in discovered_devices]
NotYetDiscovered(addr, discovered_devices) ==
    \A i \in 1..Len(discovered_devices) : discovered_devices[i].addr # addr

\* variant: the list is replaced by the new entry
AssignDevice(devs, addr, data) == <<[addr |-> addr, data |-> data]>>

\* self.devices.append((addr, data))
AppendDevice(devs, addr, data) == Append(devs, [addr |-> addr, data |-> data])

\* the datagrams a peer may answer the M-SEARCH with; a reply carries the
\* name of its datagram, DatagramText gives the bytes
DgStreamMagic == <<"H","\n","S","E","R","V","E","R",":"," ","S","t","r","e","a","m","M","a","g","i","c","/","1","\n">>
DgOther == <<"H","\n","S","E","R","V","E","R",":"," ","x"," ","S","t","r","e","a","m","M","a","g","i","c","\n">>
DgNoServer == <<"H","\n","E","X","T",":"," ","\n","S","T",":"," ","x","\n">>
DgColon == <<"H","\n","S","e","r","v","e","r",":"," ","S","t","r","e","a","m","M","a","g","i","c",":"," ","2","\n","X","\n">>

Datagrams == {"DgStreamMagic", "DgOther", "DgNoServer", "DgColon"}

DatagramText(name) ==
    CASE name = "DgStreamMagic" -> DgStreamMagic
      [] name = "DgOther"       -> DgOther
      [] name = "DgNoServer"    -> DgNoServer
      [] name = "DgColon"       -> DgColon

\* ParseReply of every datagram, evaluated once
ParsedDatagram == [d \in Datagrams |-> ParseReply(DatagramText(d))]

\* the loop of discover() over the replies; discovered_devices is the local
\* list of the call, which the loop reads and never extends
RECURSIVE DiscoverLoop(_, _, _, _)
DiscoverLoop(devs, discovered_devices, host, replies) ==
    IF replies = <<>> THEN [devices |-> devs, exc |-> "none"]
    ELSE
      LET addr == Head(replies).addr
          data == ParsedDatagram[Head(replies).data]
          reached == IF host # None /\ host # ""
                     THEN addr[1] = host
                     ELSE NotYetDiscovered(addr, discovered_devices)
      IN  IF ~reached
          THEN DiscoverLoop(devs, discovered_devices, host, Tail(replies))
          ELSE IF KeyServer \notin DOMAIN data
          THEN [devices |-> devs, exc |-> "KeyError"]
          ELSE IF IsStreamMagic(data)
          THEN DiscoverLoop(AppendDevice(devs, addr, data), discovered_devices,
                            host, Tail(replies))
          ELSE DiscoverLoop(devs, discovered_devices, host, Tail(replies))

\* if self.devices: return self.devices / return None
DiscoverReturn(devs) ==
    IF devs # <<>> THEN [kind |-> "list", list |-> devs]
    ELSE [kind |-> "None", list |-> <<>>]

\* the peers on the network segment and the datagram each answers with
Reply(host, datagram) == [addr |-> <<host, 1900>>, data |-> datagram]

Replies == {Reply("h1", "DgStreamMagic"), Reply("h2", "DgColon"),
            Reply("h3", "DgOther"), Reply("h4", "DgNoServer")}

HostArgs == {None, "h1", "h2", "h3"}

SeqsUpTo(S, n) == UNION {[1..k -> S] : k \in 0..n}

\* what _send_udp may return: the replies received before the timeout
ReplySeqs == SeqsUpTo(Replies, MaxReplies)

DInit ==
    /\ devices = <<>>
    /\ dcall = [called |-> FALSE, host |-> None, replies |-> <<>>, before |-> <<>>,
                exc |-> "none", ret |-> [kind |-> "None", list |-> <<>>]]

\* StreamMagic.discover(host); replies is what _send_udp collected
DiscoverEffect(host, replies) ==
    /\ Len(devices) + Len(replies) <= MaxDevices
    /\ LET r == DiscoverLoop(devices, <<>>, host, replies)
       IN  /\ devices' = r.devices
           /\ dcall' = [called |-> TRUE, host |-> host, replies |-> replies,
                        before |-> devices, exc |-> r.exc,
                        ret |-> IF r.exc = "none" THEN DiscoverReturn(r.devices)
                                ELSE [kind |-> "raise", list |-> <<>>]]
    /\ UNCHANGED <<services, actions, ctl, last, scpd, navigators>>

\* StreamMagic.discover(host) as one step
discover(host, replies) ==
    DiscoverEffect(host, replies) /\ UNCHANGED io

----------------------------------------------------------------------------
(* Device controller: device.py *)

URN_AVTransport == "urn:schemas-upnp-org:service:AVTransport:1"
URN_RenderingControl == "urn:schemas-upnp-org:service:RenderingControl:1"
URN_UuVolControl == "urn:UuVol-com:service:UuVolControl:5"
URN_UuVolSimpleRemote == "urn:UuVol-com:service:UuVolSimpleRemote:1"
URN_Unknown == "urn:schemas-upnp-org:service:ContentDirectory:1"

\* texts of response elements
TxtNA == <<"n","/","a">>
TxtON == <<"O","N">>
TxtOFF == <<"O","F","F">>
Txt0 == <<"0">>
Txt1 == <<"1">>
Txt2 == <<"2">>
Txt30 == <<"3","0">>
TxtPLAYING == <<"P","L","A","Y","I","N","G">>
TxtTRANSITIONING == <<"T","R","A","N","S","I","T","I","O","N","I","N","G">>
TxtMediaPlayer == <<"M","e","d","i","a"," ","P","l","a","y","e","r">>
TxtIDLE == <<"I","D","L","E">>
Txtoff == <<"o","f","f">>

\* Python values
PyNone == [t |-> "None"]
PyStr(v) == [t |-> "str", v |-> v]
PyBool(v) == [t |-> "bool", v |-> v]
PyBytes(doc) == [t |-> "bytes", doc |-> doc]

\* an XML element with its text children
Elem(tag, children) == [tag |-> tag, children |-> children]

\* ---- the network, as urllib.request.urlopen(request, timeout=2) sees it
NetOk(doc) == [kind |-> "ok", doc |-> doc]
NetFail(kind) == [kind |-> kind, doc |-> <<>>]

\* what urlopen(...) and response.read() raise for a network outcome: a
\* refused or unresolvable peer and a timeout while connecting or sending
\* raise URLError, an HTTP error status raises HTTPError, and a timeout
\* while waiting for or reading the response raises socket.timeout
UrlopenRaises(net) ==
    CASE net.kind = "ok"             -> "none"
      [] net.kind = "ConnectFailure" -> "URLError"
      [] net.kind = "ConnectTimeout" -> "URLError"
      [] net.kind = "HTTPErrorStatus" -> "HTTPError"
      [] net.kind = "ReadTimeout"    -> "socket.timeout"

\* except URLError: HTTPError is a subclass of URLError, socket.timeout is not
CaughtByExceptURLError(raised) == raised \in {"URLError", "HTTPError"}

\* ---- helpers of the class

ServiceTypes(svcs) == {svcs[i].serviceType : i \in 1..Len(svcs)}

ServiceIndex(svcs, service_type) ==
    CHOOSE i \in 1..Len(svcs) : svcs[i].serviceType = service_type

\* variant: an unknown service type falls back to an empty record
get_service_data_or_default(svcs, service_type) ==
    IF service_type \in ServiceTypes(svcs)
    THEN [kind |-> "dict", ctrlUrl |-> svcs[ServiceIndex(svcs, service_type)].ctrlUrl,
          scpdUrl |-> svcs[ServiceIndex(svcs, service_type)].scpdUrl]
    ELSE [kind |-> "dict", ctrlUrl |-> "", scpdUrl |-> ""]

\* _get_service_data
get_service_data(svcs, service_type) ==
    IF service_type \in ServiceTypes(svcs)
    THEN [kind |-> "dict", ctrlUrl |-> svcs[ServiceIndex(svcs, service_type)].ctrlUrl,
          scpdUrl |-> svcs[ServiceIndex(svcs, service_type)].scpdUrl]
    ELSE [kind |-> "None", ctrlUrl |-> "", scpdUrl |-> ""]

\* minidom: document.getElementsByTagName(tag)
getElementsByTagName(doc, tag) == SelectSeq(doc, LAMBDA e : e.tag = tag)

\* _get_response_tag_value
get_response_tag_value(response, tag) ==
    IF response.t # "bytes"
    THEN [exc |-> "TypeError", val |-> <<>>]
    ELSE LET values == getElementsByTagName(response.doc, tag)
         IN  IF values # <<>>
             THEN IF values[1].children = <<>>
                  THEN [exc |-> "AttributeError", val |-> <<>>]
                  ELSE [exc |-> "none", val |-> values[1].children[1]]
             ELSE [exc |-> "none", val |-> TxtNA]

Kw(key, val) == [key |-> key, val |-> val]

\* variant: InstanceID is appended after the other parameters
BuildParamsInstanceIdLast(omitInstanceId, instanceId, kwargs) ==
    IF omitInstanceId = TRUE
    THEN [i \in 1..Len(kwargs) |-> Elem(kwargs[i].key, kwargs[i].val)]
    ELSE [i \in 1..Len(kwargs) |-> Elem(kwargs[i].key, kwargs[i].val)]
         \o <<Elem("InstanceID", instanceId)>>

\* the parameter tags of the SOAP body, in the order they are written
BuildParams(omitInstanceId, instanceId, kwargs) ==
    (IF omitInstanceId = TRUE THEN <<>> ELSE <<Elem("InstanceID", instanceId)>>)
    \o [i \in 1..Len(kwargs) |-> Elem(kwargs[i].key, kwargs[i].val)]

\* _send_cmd; the result records the call and what became of it
send_cmd(self, svcs, action, instanceId, service_type, omitInstanceId, kwargs, net) ==
    LET params == BuildParams(omitInstanceId, instanceId, kwargs)
        soapBody == [action |-> action, xmlns |-> service_type, params |-> params]
        headers == [SOAPACTION |-> <<service_type, "#", action>>,
                    Host |-> <<self.host, self.port>>]
        sd == get_service_data(svcs, service_type)
        call == [action |-> action, service_type |-> service_type,
                 omitInstanceId |-> omitInstanceId, kwargs |-> kwargs,
                 soapBody |-> soapBody, headers |-> headers]
    IN  IF sd.kind = "None"
        THEN call @@ [net |-> "unused", dispatched |-> FALSE, ctrlUrl |-> "",
                      exc |-> "TypeError", ret |-> PyNone]
        ELSE LET raised == UrlopenRaises(net)
             IN  call @@ [net |-> net.kind, dispatched |-> TRUE, ctrlUrl |-> sd.ctrlUrl,
                          exc |-> IF raised = "none" \/ CaughtByExceptURLError(raised)
                                  THEN "none" ELSE raised,
                          ret |-> IF raised = "none" THEN PyBytes(net.doc) ELSE PyNone]

\* int(text) for a str
IsDigits(text) == text # <<>> /\ \A i \in 1..Len(text) : text[i] \in {"0","1","2","3","4","5","6","7","8","9"}

DigitValue(c) ==
    CASE c = "0" -> 0 [] c = "1" -> 1 [] c = "2" -> 2 [] c = "3" -> 3 [] c = "4" -> 4
      [] c = "5" -> 5 [] c = "6" -> 6 [] c = "7" -> 7 [] c = "8" -> 8 [] c = "9" -> 9

RECURSIVE PyInt(_)
PyInt(text) ==
    IF Len(text) = 1 THEN DigitValue(text[1])
    ELSE 10 * PyInt(SubSeq(text, 1, Len(text) - 1)) + DigitValue(text[Len(text)])

\* what an accessor hands back: exception or value, the _send_cmd calls it
\* made and the responses it handed to minidom.parseString
Raised(exc, calls, parsed) == [exc |-> exc, val |-> PyNone, calls |-> calls, parsed |-> parsed]
Returned(val, calls, parsed) == [exc |-> "none", val |-> val, calls |-> calls, parsed |-> parsed]

\* ---- typed accessors

get_mute_state(self, svcs, net) ==
    LET call == send_cmd(self, svcs, "GetMute", 0, URN_RenderingControl, FALSE,
                         <<Kw("Channel", "Master")>>, net)
        state == get_response_tag_value(call.ret, "CurrentMute")
    IN  IF call.exc # "none" THEN Raised(call.exc, <<call>>, <<>>)
        ELSE IF state.exc # "none" THEN Raised(state.exc, <<call>>, <<call.ret.t>>)
        ELSE IF ~IsDigits(state.val) THEN Raised("ValueError", <<call>>, <<call.ret.t>>)
        ELSE Returned(PyBool(PyInt(state.val) # 0), <<call>>, <<call.ret.t>>)

volume_mute(self, svcs, state, net) ==
    LET call == send_cmd(self, svcs, "SetMute", 0, URN_RenderingControl, FALSE,
                         <<Kw("Channel", "Master"),
                           Kw("DesiredMute", IF state THEN 1 ELSE 0)>>, net)
    IN  IF call.exc # "none" THEN Raised(call.exc, <<call>>, <<>>)
        ELSE Returned(call.ret, <<call>>, <<>>)

get_volume(self, svcs, net) ==
    LET call == send_cmd(self, svcs, "GetVolume", 0, URN_RenderingControl, FALSE,
                         <<Kw("Channel", "Master")>>, net)
        volume == get_response_tag_value(call.ret, "CurrentVolume")
    IN  IF call.exc # "none" THEN Raised(call.exc, <<call>>, <<>>)
        ELSE IF volume.exc # "none" THEN Raised(volume.exc, <<call>>, <<call.ret.t>>)
        ELSE Returned(PyStr(volume.val), <<call>>, <<call.ret.t>>)

get_volume_max(self, svcs, net) ==
    LET call == send_cmd(self, svcs, "GetVolumeMax", 0, URN_RenderingControl, FALSE,
                         <<>>, net)
        volume == get_response_tag_value(call.ret, "CurrentVolumeMax")
    IN  IF call.exc # "none" THEN Raised(call.exc, <<call>>, <<>>)
        ELSE IF volume.exc # "none" THEN Raised(volume.exc, <<call>>, <<call.ret.t>>)
        ELSE Returned(PyStr(volume.val), <<call>>, <<call.ret.t>>)

get_transport_state(self, svcs, net) ==
    LET call == send_cmd(self, svcs, "GetTransportInfo", 0, URN_AVTransport, FALSE,
                         <<>>, net)
        state == get_response_tag_value(call.ret, "CurrentTransportState")
    IN  IF call.exc # "none" THEN Raised(call.exc, <<call>>, <<>>)
        ELSE IF state.exc # "none" THEN Raised(state.exc, <<call>>, <<call.ret.t>>)
        ELSE Returned(PyStr(state.val), <<call>>, <<call.ret.t>>)

get_audio_source(self, svcs, net) ==
    LET call == send_cmd(self, svcs, "GetAudioSource", 0, URN_UuVolControl, FALSE,
                         <<>>, net)
        src == get_response_tag_value(call.ret, "RetAudioSourceValue")
    IN  IF call.exc # "none" THEN Raised(call.exc, <<call>>, <<>>)
        ELSE IF src.exc # "none" THEN Raised(src.exc, <<call>>, <<call.ret.t>>)
        ELSE Returned(PyStr(lower(src.val)), <<call>>, <<call.ret.t>>)

get_power_state(self, svcs, net) ==
    LET call == send_cmd(self, svcs, "GetPowerState", 0, URN_UuVolControl, FALSE,
                         <<>>, net)
        pwstate == get_response_tag_value(call.ret, "RetPowerStateValue")
    IN  IF call.exc # "none" THEN Raised(call.exc, <<call>>, <<>>)
        ELSE IF call.ret.t = "bytes"
        THEN IF pwstate.exc # "none" THEN Raised(pwstate.exc, <<call>>, <<call.ret.t>>)
             ELSE Returned(PyStr(lower(pwstate.val)), <<call>>, <<call.ret.t>>)
        ELSE Returned(PyNone, <<call>>, <<>>)

\* ---- transport controls

\* trnsprt_play_pause
trnsprt_play_pause(self, svcs, net) ==
    LET call == send_cmd(self, svcs, "KeyPressed", 0, URN_UuVolSimpleRemote, TRUE,
                         <<Kw("Key", "PLAY_PAUSE"), Kw("Duration", "SHORT")>>, net)
    IN  IF call.exc # "none" THEN Raised(call.exc, <<call>>, <<>>)
        ELSE Returned(call.ret, <<call>>, <<>>)

\* variant: the key press is sent whatever the transport state is
trnsprt_play_unguarded(self, svcs, nets) ==
    LET ts == get_transport_state(self, svcs, nets.transport)
        pp == trnsprt_play_pause(self, svcs, nets.key)
    IN  IF ts.exc # "none" THEN ts
        ELSE [pp EXCEPT !.calls = ts.calls \o pp.calls, !.parsed = ts.parsed]

\* trnsprt_play; nets holds the outcomes of the two requests it may send
trnsprt_play(self, svcs, nets) ==
    LET ts == get_transport_state(self, svcs, nets.transport)
        pp == trnsprt_play_pause(self, svcs, nets.key)
    IN  IF ts.exc # "none" THEN ts
        ELSE IF ts.val # PyStr(TxtPLAYING)
        THEN [pp EXCEPT !.calls = ts.calls \o pp.calls, !.parsed = ts.parsed]
        ELSE Returned(PyNone, ts.calls, ts.parsed)

\* ---- navigator and playback details

\* _navigator_register
navigator_register(self, svcs, net) ==
    LET call == send_cmd(self, svcs, "RegisterNavigator", 0, URN_UuVolControl, FALSE,
                         <<>>, net)
        navigator_id == get_response_tag_value(call.ret, "RetNavigatorId")
    IN  IF call.exc # "none" THEN Raised(call.exc, <<call>>, <<>>)
        ELSE IF navigator_id.exc # "none"
        THEN Raised(navigator_id.exc, <<call>>, <<call.ret.t>>)
        ELSE Returned(PyStr(navigator_id.val), <<call>>, <<call.ret.t>>)

\* _navigator_release
navigator_release(self, svcs, navigator_id, net) ==
    LET call == send_cmd(self, svcs, "ReleaseNavigator", 0, URN_UuVolControl, TRUE,
                         <<Kw("NavigatorId", navigator_id)>>, net)
    IN  IF call.exc # "none" THEN Raised(call.exc, <<call>>, <<>>)
        ELSE Returned(PyNone, <<call>>, <<>>)

\* _navigator_is_registered: bool(str) is True for every non-empty str
navigator_is_registered(self, svcs, navigator_id, net) ==
    LET call == send_cmd(self, svcs, "IsRegisteredNavigatorId", 0, URN_UuVolControl, TRUE,
                         <<Kw("NavigatorId", navigator_id)>>, net)
        reg == get_response_tag_value(call.ret, "IsRegistered")
    IN  IF call.exc # "none" THEN Raised(call.exc, <<call>>, <<>>)
        ELSE IF reg.exc # "none" THEN Raised(reg.exc, <<call>>, <<call.ret.t>>)
        ELSE Returned(PyBool(reg.val # <<>>), <<call>>, <<call.ret.t>>)

\* the playback document, as the text of the RetPlaybackXML tag: a sequence
\* of tokens, each a start tag, an end tag, an attribute or character data
Open(tag) == "<" \o tag \o ">"
Close(tag) == "</" \o tag \o ">"

\* the tags of a DIDL-Lite document
DidlTags == {"DIDL-Lite", "item", "dc:title", "upnp:artist", "upnp:album",
             "upnp:albumArtURI", "upnp:genre", "upnp:originalTrackNumber"}

PbTags == {"playback-details", "state", "format", "artist", "stream", "title"}
PbAttributes == {"codec=MP3", "bit-rate=320000"}

\* index of the first token equal to tok in text[from..to], 0 if there is none
IndexOf(text, tok, from, to) ==
    IF \E i \in from..to : text[i] = tok
    THEN CHOOSE i \in from..to : text[i] = tok /\ \A j \in from..(i - 1) : text[j] # tok
    ELSE 0

\* minidom.parseString accepts the text: one root element encloses it all
WellFormed(text) ==
    /\ Len(text) >= 2
    /\ \E tag \in PbTags \cup DidlTags :
          text[1] = Open(tag) /\ text[Len(text)] = Close(tag)

\* element.firstChild.nodeValue of the element that starts at token i
FirstChildValue(text, i, tag) ==
    IF text[i + 1] = Close(tag) THEN [exc |-> "AttributeError", val |-> ""]
    ELSE [exc |-> "none", val |-> text[i + 1]]

\* the try block of get_playback_details and the dict built after it: an
\* IndexError leaves the names not yet assigned unbound
ParsePlaybackDetails(text) ==
    IF ~WellFormed(text) THEN [exc |-> "ExpatError", val |-> PyNone]
    ELSE
    LET n == Len(text)
        pbd == IndexOf(text, Open("playback-details"), 1, n)
        pbdEnd == IF pbd = 0 THEN 0 ELSE IndexOf(text, Close("playback-details"), pbd, n)
        st == IndexOf(text, Open("state"), pbd + 1, pbdEnd)
        fm == IndexOf(text, Open("format"), pbd + 1, pbdEnd)
        ar == IndexOf(text, Open("artist"), pbd + 1, pbdEnd)
        sm == IndexOf(text, Open("stream"), pbd + 1, pbdEnd)
        smEnd == IF sm = 0 THEN 0 ELSE IndexOf(text, Close("stream"), sm, pbdEnd)
        ti == IndexOf(text, Open("title"), sm + 1, smEnd)
    IN  IF pbd = 0 \/ st = 0 THEN [exc |-> "UnboundLocalError", val |-> PyNone]
        ELSE IF FirstChildValue(text, st, "state").exc # "none"
        THEN [exc |-> "AttributeError", val |-> PyNone]
        ELSE IF fm = 0 \/ ar = 0 THEN [exc |-> "UnboundLocalError", val |-> PyNone]
        ELSE IF FirstChildValue(text, ar, "artist").exc # "none"
        THEN [exc |-> "AttributeError", val |-> PyNone]
        ELSE IF sm = 0 \/ ti = 0 THEN [exc |-> "UnboundLocalError", val |-> PyNone]
        ELSE IF FirstChildValue(text, ti, "title").exc # "none"
        THEN [exc |-> "AttributeError", val |-> PyNone]
        ELSE [exc |-> "none",
              val |-> [t |-> "dict",
                       v |-> [state |-> FirstChildValue(text, st, "state").val,
                              format |-> {text[i] : i \in {j \in (fm + 1)..pbdEnd :
                                            /\ text[j] \in PbAttributes
                                            /\ \A k \in (fm + 1)..j :
                                                  text[k] \in PbAttributes}},
                              artist |-> FirstChildValue(text, ar, "artist").val,
                              stream |-> FirstChildValue(text, ti, "title").val]]]

\* what a call did on the device: the navigator id it registered there and
\* whether its ReleaseNavigator request was carried out
OnDevice(reg, rel, r) == [registered |-> reg, released |-> rel] @@ r

\* the navigator ids a RegisterNavigator exchange left registered
RegisteredBy(reg) ==
    IF reg.exc = "none" /\ reg.calls[1].net = "ok"
       /\ getElementsByTagName(reg.calls[1].ret.doc, "RetNavigatorId") # <<>>
    THEN {reg.val.v} ELSE {}

\* the value of an expression, computed once and handed to what follows
Then(value, Rest(_)) == CHOOSE r \in {Rest(v) : v \in {value}} : TRUE

\* get_playback_details from the try block on: the release has been dealt with
pd_parse(held, released, calls, parsed, text) ==
    Then(ParsePlaybackDetails(text), LAMBDA data :
        IF data.exc # "none"
        THEN OnDevice(held, released, Raised(data.exc, calls, Append(parsed, "str")))
        ELSE OnDevice(held, released, Returned(data.val, calls, Append(parsed, "str"))))

\* ... from "if self._navigator_is_registered(nid)" on
pd_release(self, svcs, nets, held, calls, parsed, nid, text) ==
    Then(navigator_is_registered(self, svcs, nid, nets.isreg), LAMBDA isreg :
        IF isreg.exc # "none"
        THEN OnDevice(held, FALSE,
                      Raised(isreg.exc, calls \o isreg.calls, parsed \o isreg.parsed))
        ELSE IF ~isreg.val.v
        THEN pd_parse(held, FALSE, calls \o isreg.calls, parsed \o isreg.parsed, text)
        ELSE Then(navigator_release(self, svcs, nid, nets.release), LAMBDA rel :
                IF rel.exc # "none"
                THEN OnDevice(held, FALSE,
                              Raised(rel.exc, calls \o isreg.calls \o rel.calls,
                                     parsed \o isreg.parsed))
                ELSE pd_parse(held, rel.calls[1].net = "ok",
                              calls \o isreg.calls \o rel.calls,
                              parsed \o isreg.parsed, text)))

\* ... from the GetPlaybackDetails request on
pd_query(self, svcs, nets, held, calls, parsed, nid) ==
    Then(send_cmd(self, svcs, "GetPlaybackDetails", 0, URN_UuVolControl, TRUE,
                  <<Kw("NavigatorId", nid)>>, nets.details), LAMBDA response :
        IF response.exc # "none"
        THEN OnDevice(held, FALSE, Raised(response.exc, Append(calls, response), parsed))
        ELSE Then(get_response_tag_value(response.ret, "RetPlaybackXML"),
                  LAMBDA pb_details :
                IF pb_details.exc # "none"
                THEN OnDevice(held, FALSE,
                              Raised(pb_details.exc, Append(calls, response),
                                     Append(parsed, response.ret.t)))
                ELSE pd_release(self, svcs, nets, held, Append(calls, response),
                                Append(parsed, response.ret.t), nid, pb_details.val)))

\* ... from the registration of the navigator on
pd_register(self, svcs, nets, calls, parsed) ==
    Then(navigator_register(self, svcs, nets.register), LAMBDA reg :
        IF reg.exc # "none"
        THEN OnDevice({}, FALSE, Raised(reg.exc, calls \o reg.calls, parsed \o reg.parsed))
        ELSE pd_query(self, svcs, nets, RegisteredBy(reg), calls \o reg.calls,
                      parsed \o reg.parsed, reg.val.v))

\* get_playback_details; nets holds the outcomes of the requests it may send
get_playback_details(self, svcs, nets) ==
    IF self.pwrstate # PyStr(<<"o","n">>)
    THEN OnDevice({}, FALSE, Returned(PyNone, <<>>, <<>>))
    ELSE Then(get_transport_state(self, svcs, nets.transport), LAMBDA ts :
            IF ts.exc # "none" THEN OnDevice({}, FALSE, ts)
            ELSE IF ts.val = PyStr(TxtTRANSITIONING)
            THEN OnDevice({}, FALSE,
                          Returned([t |-> "dict",
                                    v |-> [state |-> "", format |-> "", artist |-> "",
                                           stream |-> ""]], ts.calls, ts.parsed))
            ELSE pd_register(self, svcs, nets, ts.calls, ts.parsed))

\* ---- track info

Txtmediaplayer == <<"m","e","d","i","a"," ","p","l","a","y","e","r">>
TxtInternetRadio == <<"I","n","t","e","r","n","e","t"," ","R","a","d","i","o">>

\* the keys of the dict of get_current_track_info, in the order they are set,
\* each with the DIDL tag it is read from
TrackFields == <<[key |-> "artist", tag |-> "upnp:artist"],
                 [key |-> "trackTitle", tag |-> "dc:title"],
                 [key |-> "albumArtURI", tag |-> "upnp:albumArtURI"],
                 [key |-> "genre", tag |-> "upnp:genre"],
                 [key |-> "origTrackNo", tag |-> "upnp:originalTrackNumber"],
                 [key |-> "album", tag |-> "upnp:album"]>>

TrackKeys == {TrackFields[i].key : i \in 1..Len(TrackFields)}

\* _get_response_tag_value applied to the text of a tag, as
\* get_current_track_info applies it to the DIDL document
get_text_tag_value(text, tag) ==
    IF ~WellFormed(text) THEN [exc |-> "ExpatError", val |-> ""]
    ELSE LET i == IndexOf(text, Open(tag), 1, Len(text))
         IN  IF i = 0 THEN [exc |-> "none", val |-> "n/a"]
             ELSE FirstChildValue(text, i, tag)

\* _get_position_info
get_position_info(self, svcs, net) ==
    LET call == send_cmd(self, svcs, "GetPositionInfo", 0, URN_AVTransport, FALSE,
                         <<>>, net)
        track_data == get_response_tag_value(call.ret, "TrackMetaData")
    IN  IF call.exc # "none" THEN Raised(call.exc, <<call>>, <<>>)
        ELSE IF track_data.exc # "none" THEN Raised(track_data.exc, <<call>>, <<call.ret.t>>)
        ELSE Returned(PyStr(track_data.val), <<call>>, <<call.ret.t>>)

\* the branch of get_current_track_info for the media player: the six tags
\* are read in the order of TrackFields and the first failure ends the call
track_info_of(track_data, calls, parsed) ==
    Then([i \in 1..Len(TrackFields) |-> get_text_tag_value(track_data, TrackFields[i].tag)],
         LAMBDA read :
            IF \E i \in 1..Len(read) : read[i].exc # "none"
            THEN Raised(read[CHOOSE i \in 1..Len(read) :
                                /\ read[i].exc # "none"
                                /\ \A j \in 1..(i - 1) : read[j].exc = "none"].exc,
                        calls, Append(parsed, "str"))
            ELSE Returned([t |-> "dict",
                           v |-> [k \in TrackKeys |->
                                    PyStr(read[CHOOSE i \in 1..Len(read) :
                                                 TrackFields[i].key = k].val)]],
                          calls, Append(parsed, "str")))

\* get_current_track_info; nets holds the outcomes of the requests it may send
get_current_track_info(self, svcs, nets) ==
    Then(get_audio_source(self, svcs, nets.source), LAMBDA src :
        IF src.exc # "none" THEN src
        ELSE IF src.val = PyStr(Txtmediaplayer)
        THEN Then(get_position_info(self, svcs, nets.position), LAMBDA pos :
                IF pos.exc # "none"
                THEN Raised(pos.exc, src.calls \o pos.calls, src.parsed \o pos.parsed)
                ELSE track_info_of(pos.val.v, src.calls \o pos.calls,
                                   src.parsed \o pos.parsed))
        ELSE Returned([t |-> "dict",
                       v |-> [k \in TrackKeys |-> PyStr("NOT_IMPLEMENTED")]],
                      src.calls, src.parsed))

\* ---- power

\* variant: the cache follows the device, it is set only when a response came
power_on_if_response(self, svcs, net) ==
    LET call == send_cmd(self, svcs, "SetPowerState", 0, URN_UuVolControl, TRUE,
                         <<Kw("NewPowerStateValue", TxtON)>>, net)
    IN  IF call.exc # "none"
        THEN [pwrstate |-> self.pwrstate] @@ Raised(call.exc, <<call>>, <<>>)
        ELSE [pwrstate |-> IF call.ret.t = "bytes" THEN PyStr(<<"o","n">>)
                           ELSE self.pwrstate]
             @@ Returned(call.ret, <<call>>, <<>>)

\* power_on; pwrstate is self._pwrstate after the call
power_on(self, svcs, net) ==
    LET call == send_cmd(self, svcs, "SetPowerState", 0, URN_UuVolControl, TRUE,
                         <<Kw("NewPowerStateValue", TxtON)>>, net)
    IN  IF call.exc # "none"
        THEN [pwrstate |-> self.pwrstate] @@ Raised(call.exc, <<call>>, <<>>)
        ELSE [pwrstate |-> PyStr(<<"o","n">>)] @@ Returned(call.ret, <<call>>, <<>>)

\* variant: the requested state is passed on unchecked
power_off_unchecked(self, svcs, power_state, net) ==
    LET call == send_cmd(self, svcs, "SetPowerState", 0, URN_UuVolControl, TRUE,
                         <<Kw("NewPowerStateValue", power_state)>>, net)
    IN  IF call.exc # "none"
        THEN [pwrstate |-> self.pwrstate] @@ Raised(call.exc, <<call>>, <<>>)
        ELSE [pwrstate |-> PyStr(lower(power_state))]
             @@ Returned(call.ret, <<call>>, <<>>)

\* power_off(power_state)
power_off(self, svcs, power_state, net) ==
    IF power_state \notin {TxtOFF, TxtIDLE}
    THEN [pwrstate |-> self.pwrstate] @@ Returned(PyNone, <<>>, <<>>)
    ELSE LET call == send_cmd(self, svcs, "SetPowerState", 0, URN_UuVolControl, TRUE,
                              <<Kw("NewPowerStateValue", power_state)>>, net)
         IN  IF call.exc # "none"
             THEN [pwrstate |-> self.pwrstate] @@ Raised(call.exc, <<call>>, <<>>)
             ELSE [pwrstate |-> PyStr(lower(power_state))]
                  @@ Returned(call.ret, <<call>>, <<>>)

\* ---- construction

\* dict.update({key: value}) on the insertion-ordered services dict
PutService(svcs, rec) ==
    IF rec.serviceType \in ServiceTypes(svcs)
    THEN [svcs EXCEPT ![ServiceIndex(svcs, rec.serviceType)] = rec]
    ELSE Append(svcs, rec)

\* the loop of __init__ over the <service> nodes of the root description
RECURSIVE UpdateServices(_, _, _)
UpdateServices(svcs, urlbase, nodes) ==
    IF nodes = <<>> THEN svcs
    ELSE UpdateServices(
            PutService(svcs, [serviceType |-> Head(nodes).serviceType,
                              scpdUrl |-> urlbase \o Head(nodes).SCPDURL,
                              ctrlUrl |-> urlbase \o Head(nodes).controlURL]),
            urlbase, Tail(nodes))

\* variant: a failed fetch of the root description leaves a controller that
\* has no services of its own
device_init_tolerant(svcs, desc, root, net) ==
    LET self0 == [host |-> desc.host, port |-> desc.port, location |-> desc.location,
                  pwrstate |-> PyNone]
    IN  IF root.kind = "None"
        THEN [services |-> svcs, self |-> self0] @@ Returned(PyNone, <<>>, <<>>)
        ELSE IF root.urlBase # <<>>
        THEN [services |-> svcs, self |-> self0] @@ Raised("AttributeError", <<>>, <<>>)
        ELSE LET urlbase == desc.location.scheme \o "://" \o desc.location.netloc
                 svcs1 == UpdateServices(svcs, urlbase, root.services)
                 pw == get_power_state(self0, svcs1, net)
             IN  [services |-> svcs1, self |-> [self0 EXCEPT !.pwrstate = pw.val]] @@ pw

\* StreamMagicDevice.__init__: root is what _get_scpd(location) returned,
\* net the outcome of the GetPowerState request
device_init(svcs, desc, root, net) ==
    LET self0 == [host |-> desc.host, port |-> desc.port, location |-> desc.location,
                  pwrstate |-> PyNone]
    IN  IF root.kind = "None"
        THEN [services |-> svcs, self |-> self0] @@ Raised("AttributeError", <<>>, <<>>)
        ELSE IF root.urlBase # <<>>
        THEN [services |-> svcs, self |-> self0] @@ Raised("AttributeError", <<>>, <<>>)
        ELSE LET urlbase == desc.location.scheme \o "://" \o desc.location.netloc
                 svcs1 == UpdateServices(svcs, urlbase, root.services)
                 pw == get_power_state(self0, svcs1, net)
             IN  [services |-> svcs1, self |-> [self0 EXCEPT !.pwrstate = pw.val]] @@ pw

\* ---- capability expansion

\* dict[key] = value
Put(d, key, val) == [k \in (DOMAIN d) \cup {key} |-> IF k = key THEN val ELSE d[k]]

\* the innermost loop of _update_actions: the arguments of one action
RECURSIVE AddArguments(_, _, _, _)
AddArguments(acts, service, action, arguments) ==
    IF arguments = <<>> THEN acts
    ELSE LET a == Head(arguments)
             acts1 == IF service \notin DOMAIN acts THEN Put(acts, service, <<>>) ELSE acts
             acts2 == IF action \notin DOMAIN acts1[service]
                      THEN Put(acts1, service, Put(acts1[service], action, <<>>))
                      ELSE acts1
             info == [direction |-> a.direction,
                      relatedStateVariable |-> a.relatedStateVariable,
                      dataType |-> None]
         IN  AddArguments(
                Put(acts2, service, Put(acts2[service], action,
                                        Put(acts2[service][action], a.name, info))),
                service, action, Tail(arguments))

\* the loop of _update_actions over the <action> nodes of one SCPD document
RECURSIVE AddActions(_, _, _)
AddActions(acts, service, nodes) ==
    IF nodes = <<>> THEN acts
    ELSE AddActions(AddArguments(acts, service, Head(nodes).name, Head(nodes).arguments),
                    service, Tail(nodes))

\* _update_actions: fetch[t] is what _get_scpd returns for the SCPD URL of
\* service type t; fetches counts the _get_scpd calls
RECURSIVE update_actions(_, _, _, _)
update_actions(acts, svcs, fetch, fetches) ==
    IF svcs = <<>> THEN [actions |-> acts, exc |-> "none", fetches |-> fetches]
    ELSE LET xml == fetch[Head(svcs).serviceType]
         IN  IF xml.kind = "None"
             THEN [actions |-> acts, exc |-> "AttributeError", fetches |-> fetches + 1]
             ELSE update_actions(AddActions(acts, Head(svcs).serviceType, xml.actions),
                                 Tail(svcs), fetch, fetches + 1)

MaxRecursion == 4       \* frames of get_services before the interpreter gives up

\* get_services(init)
RECURSIVE get_services(_, _, _, _, _, _)
get_services(acts, svcs, init, fetch, fetches, depth) ==
    IF depth > MaxRecursion
    THEN [actions |-> acts, exc |-> "RecursionError", val |-> {}, fetches |-> fetches]
    ELSE LET up == IF init
                   THEN update_actions(acts, svcs, fetch, fetches)
                   ELSE [actions |-> acts, exc |-> "none", fetches |-> fetches]
             initialized == init
         IN  IF up.exc # "none"
             THEN [actions |-> up.actions, exc |-> up.exc, val |-> {}, fetches |-> up.fetches]
             ELSE IF DOMAIN up.actions # {}
             THEN [actions |-> up.actions, exc |-> "none", val |-> DOMAIN up.actions,
                   fetches |-> up.fetches]
             ELSE get_services(up.actions, svcs, ~initialized, fetch, up.fetches, depth + 1)

\* get_actions(service_type)
get_actions(acts, service_type) ==
    IF service_type \notin DOMAIN acts THEN [exc |-> "KeyError", val |-> PyNone]
    ELSE [exc |-> "none", val |-> [t |-> "keys", v |-> DOMAIN acts[service_type]]]

\* get_action_parameters(service_type, action)
get_action_parameters(acts, service_type, action) ==
    IF service_type \notin DOMAIN acts THEN [exc |-> "KeyError", val |-> PyNone]
    ELSE IF action \notin DOMAIN acts[service_type] THEN [exc |-> "KeyError", val |-> PyNone]
    ELSE [exc |-> "none", val |-> [t |-> "keys", v |-> DOMAIN acts[service_type][action]]]

\* get_parameter_info(service_type, action, parameter)
get_parameter_info(acts, service_type, action, parameter) ==
    IF service_type \notin DOMAIN acts THEN [exc |-> "KeyError", val |-> PyNone]
    ELSE IF action \notin DOMAIN acts[service_type] THEN [exc |-> "KeyError", val |-> PyNone]
    ELSE IF parameter \notin DOMAIN acts[service_type][action]
    THEN [exc |-> "KeyError", val |-> PyNone]
    ELSE [exc |-> "none",
          val |-> [t |-> "dict", v |-> acts[service_type][action][parameter]]]

\* ---- the devices on the network and what they answer

Loc1 == [scheme |-> "http", netloc |-> "d1:8050", path |-> "/desc.xml"]
Loc2 == [scheme |-> "http", netloc |-> "d2:8050", path |-> "/desc.xml"]

Descriptors == {[host |-> "d1", port |-> 8050, location |-> Loc1],
                [host |-> "d2", port |-> 8050, location |-> Loc2]}

ServiceNode(serviceType, controlURL, SCPDURL) ==
    [serviceType |-> serviceType, controlURL |-> controlURL, SCPDURL |-> SCPDURL]

NodeAVT == ServiceNode(URN_AVTransport, "/av/ctl", "/av/scpd.xml")
NodeRC == ServiceNode(URN_RenderingControl, "/rc/ctl", "/rc/scpd.xml")
NodeUuVol == ServiceNode(URN_UuVolControl, "/uv/ctl", "/uv/scpd.xml")

RootXml(urlBase, nodes) == [kind |-> "xml", urlBase |-> urlBase, services |-> nodes]
RootNone == [kind |-> "None", urlBase |-> <<>>, services |-> <<>>]

\* what _get_scpd(location) may return for the root description of a device
RootOutcomes(desc) ==
    IF desc.host = "d1"
    THEN {RootXml(<<>>, <<NodeAVT, NodeUuVol>>),
          RootXml(<<Elem("urlBase", <<"http://d1:8050/">>)>>, <<NodeAVT, NodeUuVol>>),
          RootNone}
    ELSE {RootXml(<<>>, <<NodeRC, NodeUuVol>>), RootNone}

Argument(name, direction, rsv) ==
    [name |-> name, direction |-> direction, relatedStateVariable |-> rsv]

ActionNode(name, arguments) == [name |-> name, arguments |-> arguments]

ScpdXml(nodes) == [kind |-> "xml", actions |-> nodes]
ScpdNone == [kind |-> "None", actions |-> <<>>]

ArgInstanceID == Argument("InstanceID", "in", "A_ARG_TYPE_InstanceID")

ScpdAVT == ScpdXml(<<ActionNode("Play", <<ArgInstanceID,
                                          Argument("Speed", "in", "TransportPlaySpeed")>>),
                     ActionNode("GetStatus", <<>>)>>)
ScpdAVTChanged == ScpdXml(<<ActionNode("Play", <<ArgInstanceID>>),
                            ActionNode("Pause", <<ArgInstanceID>>)>>)
ScpdRC == ScpdXml(<<ActionNode("GetMute", <<ArgInstanceID,
                                            Argument("Channel", "in", "A_ARG_TYPE_Channel"),
                                            Argument("CurrentMute", "out", "Mute")>>)>>)
ScpdNoArguments == ScpdXml(<<ActionNode("GetPowerState", <<>>)>>)
ScpdAVTNoArguments == ScpdXml(<<ActionNode("GetStatus", <<>>)>>)

\* what _get_scpd may return for the SCPD URL of a service type
ScpdOutcomes(service_type) ==
    CASE service_type = URN_AVTransport      -> {ScpdAVT, ScpdAVTChanged, ScpdAVTNoArguments,
                                                 ScpdNone}
      [] service_type = URN_RenderingControl -> {ScpdRC, ScpdNone}
      [] OTHER                               -> {ScpdNoArguments}

AllScpdOutcomes == {ScpdAVT, ScpdAVTChanged, ScpdAVTNoArguments, ScpdRC, ScpdNoArguments,
                    ScpdNone}

FetchChoices(svcs) ==
    {f \in [ServiceTypes(svcs) -> AllScpdOutcomes] :
        \A t \in ServiceTypes(svcs) : f[t] \in ScpdOutcomes(t)}

\* the response documents a device may answer an action with
ResponseDocs(action) ==
    CASE action = "GetPowerState" ->
            {<<Elem("RetPowerStateValue", <<TxtON>>)>>, <<Elem("RetPowerStateValue", <<TxtOFF>>)>>}
      [] action = "GetMute" ->
            {<<Elem("CurrentMute", <<Txt0>>)>>, <<Elem("CurrentMute", <<Txt1>>)>>,
             <<Elem("CurrentMute", <<Txt2>>)>>, <<>>}
      [] action = "GetVolume" ->
            {<<Elem("CurrentVolume", <<Txt30>>)>>, <<Elem("CurrentVolume", <<>>)>>}
      [] action = "GetVolumeMax" -> {<<Elem("CurrentVolumeMax", <<Txt30>>)>>}
      [] action = "GetTransportInfo" ->
            {<<Elem("CurrentTransportState", <<TxtPLAYING>>)>>,
             <<Elem("CurrentTransportState", <<TxtTRANSITIONING>>)>>, <<>>}
      [] action = "GetAudioSource" -> {<<Elem("RetAudioSourceValue", <<TxtMediaPlayer>>)>>}
      [] OTHER -> {<<>>}

FailureKinds == {"ConnectFailure", "ConnectTimeout", "HTTPErrorStatus", "ReadTimeout"}

NetOutcomes(action) ==
    {NetOk(doc) : doc \in ResponseDocs(action)} \cup {NetFail(k) : k \in FailureKinds}

\* the outcomes of the GetPowerState request of a construction
ConstructNets ==
    {NetOk(<<Elem("RetPowerStateValue", <<TxtON>>)>>), NetFail("ConnectFailure"),
     NetFail("ReadTimeout")}

Accessors == {"get_mute_state", "get_volume", "get_volume_max", "get_transport_state",
              "get_audio_source", "get_power_state"}

ActionOf(accessor) ==
    CASE accessor = "get_mute_state"      -> "GetMute"
      [] accessor = "get_volume"          -> "GetVolume"
      [] accessor = "get_volume_max"      -> "GetVolumeMax"
      [] accessor = "get_transport_state" -> "GetTransportInfo"
      [] accessor = "get_audio_source"    -> "GetAudioSource"
      [] accessor = "get_power_state"     -> "GetPowerState"

CallOf(accessor, self, svcs, net) ==
    CASE accessor = "get_mute_state"      -> get_mute_state(self, svcs, net)
      [] accessor = "get_volume"          -> get_volume(self, svcs, net)
      [] accessor = "get_volume_max"      -> get_volume_max(self, svcs, net)
      [] accessor = "get_transport_state" -> get_transport_state(self, svcs, net)
      [] accessor = "get_audio_source"    -> get_audio_source(self, svcs, net)
      [] accessor = "get_power_state"     -> get_power_state(self, svcs, net)

\* the arguments a caller gives _send_cmd directly
SendActions == {"SetMute"}
SendServiceTypes == {URN_RenderingControl, URN_Unknown}
SendKwargs == {<<>>,
               <<Kw("Channel", "Master"), Kw("DesiredMute", 1)>>,
               <<Kw("DesiredMute", 1), Kw("Channel", "Master")>>}

\* the outcomes of the GetPowerState request of a construction, with the
\* answers OFF and one that lacks the RetPowerStateValue tag
PowerConstructNets ==
    ConstructNets \cup {NetOk(<<Elem("RetPowerStateValue", <<TxtOFF>>)>>), NetOk(<<>>)}

\* the arguments a caller gives power_off
PowerStateArgs == {TxtOFF, TxtIDLE, TxtON, Txtoff}

\* the root description of a device of the family: it names the transport,
\* the vendor control and the remote control service
NodeSimpleRemote == ServiceNode(URN_UuVolSimpleRemote, "/sr/ctl", "/sr/scpd.xml")
PlaybackRoot == RootXml(<<>>, <<NodeAVT, NodeUuVol, NodeSimpleRemote>>)

\* texts of RetPlaybackXML: the full document and one without <artist>
PbFull == <<"<playback-details>", "<state>", "Playing", "</state>",
            "<format>", "codec=MP3", "bit-rate=320000", "</format>",
            "<artist>", "Derek", "</artist>",
            "<stream>", "<title>", "Psychomed", "</title>", "</stream>",
            "</playback-details>">>
PbNoArtist == <<"<playback-details>", "<state>", "Playing", "</state>",
                "<format>", "codec=MP3", "bit-rate=320000", "</format>",
                "<stream>", "<title>", "Psychomed", "</title>", "</stream>",
                "</playback-details>">>

\* the ids the device hands out
NavigatorIds == {<<"n","1">>, <<"n","2">>}

\* the outcomes of the requests of one get_playback_details call on a device
\* that holds the ids registered
PlaybackNets(registered) ==
    [transport : {NetOk(<<Elem("CurrentTransportState", <<TxtPLAYING>>)>>),
                  NetOk(<<Elem("CurrentTransportState", <<TxtTRANSITIONING>>)>>),
                  NetFail("ConnectFailure")},
     register : {NetOk(<<Elem("RetNavigatorId", <<id>>)>>) : id \in NavigatorIds \ registered}
                \cup {NetFail("ConnectFailure")},
     details : {NetOk(<<Elem("RetPlaybackXML", <<PbFull>>)>>),
                NetOk(<<Elem("RetPlaybackXML", <<PbNoArtist>>)>>),
                NetOk(<<>>), NetFail("ConnectFailure"), NetFail("ReadTimeout")},
     isreg : {NetOk(<<Elem("IsRegistered", <<Txt1>>)>>),
              NetOk(<<Elem("IsRegistered", <<Txt0>>)>>), NetFail("ConnectFailure")},
     release : {NetOk(<<>>), NetFail("ConnectFailure")}]

\* texts of TrackMetaData: a DIDL-Lite document with title, artist and album
DidlFull == <<"<DIDL-Lite>", "<item>", "<dc:title>", "Psychomed", "</dc:title>",
              "<upnp:artist>", "Derek", "</upnp:artist>",
              "<upnp:album>", "Live", "</upnp:album>", "</item>", "</DIDL-Lite>">>

\* the outcomes of the requests of one get_current_track_info call
TrackNets ==
    [source : {NetOk(<<Elem("RetAudioSourceValue", <<TxtMediaPlayer>>)>>),
               NetOk(<<Elem("RetAudioSourceValue", <<TxtInternetRadio>>)>>),
               NetOk(<<>>), NetFail("ConnectFailure")},
     position : {NetOk(<<Elem("TrackMetaData", <<DidlFull>>)>>),
                 NetOk(<<Elem("TrackMetaData", <<>>)>>),
                 NetOk(<<>>), NetFail("ConnectFailure")}]

\* the arguments a caller gives _get_response_tag_value: well-formed
\* responses, one with two elements of the tag, one whose element has no
\* text, one without the tag
TagResponses ==
    {PyBytes(doc) : doc \in {<<Elem("CurrentVolume", <<Txt30>>)>>,
                             <<Elem("CurrentVolume", <<Txt30>>),
                               Elem("CurrentVolume", <<Txt0>>)>>,
                             <<Elem("CurrentVolume", <<>>)>>,
                             <<Elem("CurrentMute", <<Txt1>>)>>,
                             <<>>}}
TagArgs == {"CurrentVolume", "CurrentMute"}

\* the outcomes of the requests of one trnsprt_play call
PlayNets ==
    [transport : NetOutcomes("GetTransportInfo"), key : NetOutcomes("KeyPressed")]

\* the accessors called between power transitions
PowerAccessors == {"get_power_state", "get_transport_state"}

\* the arguments a caller gives the catalog lookups
LookupServiceTypes == {URN_AVTransport, URN_UuVolControl}
LookupActions == {"Play", "GetStatus"}
LookupParameters == {"InstanceID", "Speed"}

\* ---- state and operations

\* self.services and self.actions of controller c: services and actions are
\* class attributes that are mutated in place and never assigned on an
\* instance, so the lookup through any instance finds the one class dict
ServicesSeenBy(c) == services
ActionsSeenBy(c) == actions

NoOp == [op |-> "none", self |-> 0, host |-> "", arg |-> None, exc |-> "none",
         val |-> PyNone, calls |-> <<>>, parsed |-> <<>>, fetches |-> 0,
         root |-> RootNone]

CInit ==
    /\ services = <<>>
    /\ actions = <<>>
    /\ ctl = <<>>
    /\ last = NoOp
    /\ scpd = <<>>
    /\ navigators = [d \in {desc.host : desc \in Descriptors} |-> {}]

\* dev = StreamMagicDevice(host, port, description, location), once for each
\* discovered device
ConstructEffect(desc, root, net) ==
    /\ \A i \in 1..Len(ctl) : ctl[i].host # desc.host
    /\ LET r == device_init(services, desc, root, net)
       IN  /\ services' = r.services
           /\ ctl' = IF r.exc = "none" THEN Append(ctl, r.self) ELSE ctl
           /\ last' = [NoOp EXCEPT !.op = "__init__",
                                   !.self = IF r.exc = "none" THEN Len(ctl) + 1 ELSE 0,
                                   !.host = desc.host, !.arg = root.kind,
                                   !.root = root,
                                   !.exc = r.exc, !.val = r.val,
                                   !.calls = r.calls, !.parsed = r.parsed]
    /\ UNCHANGED <<actions, devices, dcall, scpd, navigators>>

\* the constructor as one step
Construct(desc, root, net) ==
    ConstructEffect(desc, root, net) /\ UNCHANGED io

\* dev.get_mute_state(), dev.get_volume(), ...
CallAccessor(c, accessor, net) ==
    /\ c \in 1..Len(ctl)
    /\ LET r == CallOf(accessor, ctl[c], services, net)
       IN  last' = [NoOp EXCEPT !.op = accessor, !.self = c, !.host = ctl[c].host,
                                !.exc = r.exc, !.val = r.val, !.calls = r.calls,
                                !.parsed = r.parsed]
    /\ UNCHANGED <<services, actions, ctl, devices, dcall, scpd, navigators, io>>

\* dev.volume_mute(state)
VolumeMute(c, state, net) ==
    /\ c \in 1..Len(ctl)
    /\ LET r == volume_mute(ctl[c], services, state, net)
       IN  last' = [NoOp EXCEPT !.op = "volume_mute", !.self = c, !.host = ctl[c].host,
                                !.arg = state, !.exc = r.exc, !.val = r.val,
                                !.calls = r.calls, !.parsed = r.parsed]
    /\ UNCHANGED <<services, actions, ctl, devices, dcall, scpd, navigators, io>>

\* dev._send_cmd(action, service_type=..., omitInstanceId=..., **kwargs)
SendCmdEffect(c, action, service_type, omitInstanceId, kwargs, net) ==
    /\ c \in 1..Len(ctl)
    /\ LET call == send_cmd(ctl[c], services, action, 0, service_type, omitInstanceId,
                            kwargs, net)
       IN  last' = [NoOp EXCEPT !.op = "_send_cmd", !.self = c, !.host = ctl[c].host,
                                !.exc = call.exc, !.val = call.ret, !.calls = <<call>>]
    /\ UNCHANGED <<services, actions, ctl, devices, dcall, scpd, navigators>>

\* dev._send_cmd(...) as one step
SendCmd(c, action, service_type, omitInstanceId, kwargs, net) ==
    SendCmdEffect(c, action, service_type, omitInstanceId, kwargs, net) /\ UNCHANGED io

\* dev.get_services(init)
GetServicesEffect(c, init, fetch) ==
    /\ c \in 1..Len(ctl)
    /\ LET r == get_services(actions, services, init, fetch, 0, 1)
       IN  /\ actions' = r.actions
           /\ last' = [NoOp EXCEPT !.op = "get_services", !.self = c, !.host = ctl[c].host,
                                   !.arg = init, !.exc = r.exc,
                                   !.val = [t |-> "keys", v |-> r.val],
                                   !.fetches = r.fetches]
           /\ scpd' = IF r.fetches = 0 THEN scpd
                      ELSE IF r.exc = "none" THEN fetch ELSE <<>>
    /\ UNCHANGED <<services, ctl, devices, dcall, navigators>>

\* dev.get_services(init) as one step
GetServices(c, init, fetch) ==
    GetServicesEffect(c, init, fetch) /\ UNCHANGED io

\* dev.get_actions(service_type)
GetActions(c, service_type) ==
    /\ c \in 1..Len(ctl)
    /\ LET r == get_actions(actions, service_type)
       IN  last' = [NoOp EXCEPT !.op = "get_actions", !.self = c, !.host = ctl[c].host,
                                !.arg = service_type, !.exc = r.exc, !.val = r.val]
    /\ UNCHANGED <<services, actions, ctl, devices, dcall, scpd, navigators, io>>

\* dev.get_action_parameters(service_type, action)
GetActionParameters(c, service_type, action) ==
    /\ c \in 1..Len(ctl)
    /\ LET r == get_action_parameters(actions, service_type, action)
       IN  last' = [NoOp EXCEPT !.op = "get_action_parameters", !.self = c,
                                !.host = ctl[c].host, !.arg = <<service_type, action>>,
                                !.exc = r.exc, !.val = r.val]
    /\ UNCHANGED <<services, actions, ctl, devices, dcall, scpd, navigators, io>>

\* dev.get_parameter_info(service_type, action, parameter)
GetParameterInfo(c, service_type, action, parameter) ==
    /\ c \in 1..Len(ctl)
    /\ LET r == get_parameter_info(actions, service_type, action, parameter)
       IN  last' = [NoOp EXCEPT !.op = "get_parameter_info", !.self = c,
                                !.host = ctl[c].host,
                                !.arg = <<service_type, action, parameter>>,
                                !.exc = r.exc, !.val = r.val]
    /\ UNCHANGED <<services, actions, ctl, devices, dcall, scpd, navigators, io>>

\* dev.power_on()
PowerOn(c, net) ==
    /\ c \in 1..Len(ctl)
    /\ LET r == power_on(ctl[c], services, net)
       IN  /\ ctl' = [ctl EXCEPT ![c].pwrstate = r.pwrstate]
           /\ last' = [NoOp EXCEPT !.op = "power_on", !.self = c, !.host = ctl[c].host,
                                   !.exc = r.exc, !.val = r.val, !.calls = r.calls]
    /\ UNCHANGED <<services, actions, devices, dcall, scpd, navigators, io>>

\* dev.power_off(power_state)
PowerOff(c, power_state, net) ==
    /\ c \in 1..Len(ctl)
    /\ LET r == power_off(ctl[c], services, power_state, net)
       IN  /\ ctl' = [ctl EXCEPT ![c].pwrstate = r.pwrstate]
           /\ last' = [NoOp EXCEPT !.op = "power_off", !.self = c, !.host = ctl[c].host,
                                   !.arg = power_state, !.exc = r.exc, !.val = r.val,
                                   !.calls = r.calls]
    /\ UNCHANGED <<services, actions, devices, dcall, scpd, navigators, io>>

\* dev.trnsprt_play()
TrnsprtPlay(c, nets) ==
    /\ c \in 1..Len(ctl)
    /\ LET r == trnsprt_play(ctl[c], services, nets)
       IN  last' = [NoOp EXCEPT !.op = "trnsprt_play", !.self = c, !.host = ctl[c].host,
                                !.exc = r.exc, !.val = r.val, !.calls = r.calls,
                                !.parsed = r.parsed]
    /\ UNCHANGED <<services, actions, ctl, devices, dcall, scpd, navigators, io>>

\* dev.get_playback_details(), with what the requests do on the device
GetPlaybackDetails(c, nets) ==
    /\ c \in 1..Len(ctl)
    /\ \E r \in {get_playback_details(ctl[c], services, nets)} :
           /\ navigators' = [navigators EXCEPT ![ctl[c].host] =
                                IF r.released THEN @ ELSE @ \cup r.registered]
           /\ last' = [NoOp EXCEPT !.op = "get_playback_details", !.self = c,
                                   !.host = ctl[c].host, !.exc = r.exc, !.val = r.val,
                                   !.calls = r.calls, !.parsed = r.parsed]
    /\ UNCHANGED <<services, actions, ctl, devices, dcall, scpd, io>>

----------------------------------------------------------------------------
\* dev.get_current_track_info()
GetCurrentTrackInfo(c, nets) ==
    /\ c \in 1..Len(ctl)
    /\ \E r \in {get_current_track_info(ctl[c], services, nets)} :
           last' = [NoOp EXCEPT !.op = "get_current_track_info", !.self = c,
                                !.host = ctl[c].host, !.exc = r.exc, !.val = r.val,
                                !.calls = r.calls, !.parsed = r.parsed]
    /\ UNCHANGED <<services, actions, ctl, devices, dcall, scpd, navigators, io>>

\* dev._get_response_tag_value(response, tag)
GetResponseTagValue(c, response, tag) ==
    /\ c \in 1..Len(ctl)
    /\ \E r \in {get_response_tag_value(response, tag)} :
           last' = [NoOp EXCEPT !.op = "_get_response_tag_value", !.self = c,
                                !.host = ctl[c].host,
                                !.arg = [response |-> response, tag |-> tag],
                                !.exc = r.exc,
                                !.val = IF r.exc = "none" THEN PyStr(r.val) ELSE PyNone]
    /\ UNCHANGED <<services, actions, ctl, devices, dcall, scpd, navigators, io>>

\* ---- blocking network calls, one second at a time

\* sock.settimeout(2) and urlopen(request, timeout=2), in seconds
SocketTimeout == 2

\* no operation is blocked in a network call
IoIdle == [call |-> "none", op |-> "none", arg |-> <<>>, timed |-> FALSE,
           waited |-> 0, sent |-> 0, replies |-> <<>>]

\* operation op has just entered the network call; timed tells whether the
\* call was given a timeout, waited counts the seconds since it last started
\* to wait, sent the datagrams sent, replies the datagrams collected
Blocked(call, op, arg, timed, sent) ==
    [call |-> call, op |-> op, arg |-> arg, timed |-> timed,
     waited |-> 0, sent |-> sent, replies |-> <<>>]

IInit == io = IoIdle

\* the arguments of the operations that are followed through their network
\* call
BlockingHosts == {None, "h1"}
BlockingReplies == {Reply("h1", "DgStreamMagic"), Reply("h4", "DgNoServer")}
BlockingDescriptors == {desc \in Descriptors : desc.host = "d2"}
BlockingRequests ==
    {[c |-> c, action |-> "SetMute", service_type |-> URN_RenderingControl,
      omitInstanceId |-> FALSE, kwargs |-> <<Kw("DesiredMute", 1)>>] : c \in 1..1}

\* discover(host) up to the first recvfrom of _send_udp: the socket is given
\* its timeout and the one M-SEARCH datagram is sent
SendUdp(host) ==
    /\ io = IoIdle
    /\ Len(devices) + MaxReplies <= MaxDevices
    /\ io' = Blocked("recvfrom", "discover", host, TRUE, 1)
    /\ UNCHANGED <<devices, dcall, services, actions, ctl, last, scpd, navigators>>

\* a second passes while the operation waits; without a timeout nothing
\* reads the clock and the count stops at SocketTimeout
Tick ==
    /\ io.call # "none"
    /\ io.waited < SocketTimeout
    /\ io' = [io EXCEPT !.waited = @ + 1]
    /\ UNCHANGED <<devices, dcall, services, actions, ctl, last, scpd, navigators>>

\* recvfrom returns a datagram before its timeout: it is appended and the
\* loop calls recvfrom again, which waits anew for the full timeout; the
\* first MaxReplies datagrams of a call are kept
Recvfrom(reply) ==
    /\ io.call = "recvfrom"
    /\ io.waited < SocketTimeout
    /\ io' = [io EXCEPT !.waited = 0,
                        !.replies = IF Len(@) < MaxReplies THEN Append(@, reply) ELSE @]
    /\ UNCHANGED <<devices, dcall, services, actions, ctl, last, scpd, navigators>>

\* recvfrom raises socket.timeout: _send_udp returns the replies and
\* discover decodes them
RecvfromTimesOut ==
    /\ io.call = "recvfrom"
    /\ io.waited = SocketTimeout
    /\ DiscoverEffect(io.arg, io.replies)
    /\ io' = IoIdle

\* the constructor up to urlopen(self.location) in _get_scpd: no timeout
OpenRoot(desc) ==
    /\ io = IoIdle
    /\ \A i \in 1..Len(ctl) : ctl[i].host # desc.host
    /\ io' = Blocked("urlopen", "__init__", desc, FALSE, 0)
    /\ UNCHANGED <<devices, dcall, services, actions, ctl, last, scpd, navigators>>

\* get_services up to the urlopen(scpdurl) of the first service in
\* _update_actions: no timeout
OpenScpd(c, init) ==
    /\ io = IoIdle
    /\ c \in 1..Len(ctl)
    /\ init \/ DOMAIN actions = {}
    /\ services # <<>>
    /\ io' = Blocked("urlopen", "get_services", [c |-> c, init |-> init], FALSE, 0)
    /\ UNCHANGED <<devices, dcall, services, actions, ctl, last, scpd, navigators>>

\* _send_cmd up to urlopen(request, timeout=2)
OpenRequest(req) ==
    /\ io = IoIdle
    /\ req.c \in 1..Len(ctl)
    /\ send_cmd(ctl[req.c], services, req.action, 0, req.service_type,
                req.omitInstanceId, req.kwargs, NetOk(<<>>)).dispatched
    /\ io' = Blocked("urlopen", "_send_cmd", req, TRUE, 0)
    /\ UNCHANGED <<devices, dcall, services, actions, ctl, last, scpd, navigators>>

\* urlopen returns or raises because of what the peer did, and the operation
\* runs to its end
UrlopenReturns ==
    /\ io.call = "urlopen"
    /\ io.timed => io.waited < SocketTimeout
    /\ io' = IoIdle
    /\ \/ /\ io.op = "__init__"
          /\ \E root \in RootOutcomes(io.arg), net \in ConstructNets :
                ConstructEffect(io.arg, root, net)
       \/ /\ io.op = "get_services"
          /\ \E fetch \in FetchChoices(services) :
                GetServicesEffect(io.arg.c, io.arg.init, fetch)
       \/ /\ io.op = "_send_cmd"
          /\ \E net \in NetOutcomes(io.arg.action) \ {NetFail("ReadTimeout")} :
                SendCmdEffect(io.arg.c, io.arg.action, io.arg.service_type,
                              io.arg.omitInstanceId, io.arg.kwargs, net)

\* urlopen(request, timeout=2) raises socket.timeout
UrlopenTimesOut ==
    /\ io.call = "urlopen"
    /\ io.timed
    /\ io.waited = SocketTimeout
    /\ io.op = "_send_cmd"
    /\ SendCmdEffect(io.arg.c, io.arg.action, io.arg.service_type,
                     io.arg.omitInstanceId, io.arg.kwargs, NetFail("ReadTimeout"))
    /\ io' = IoIdle

Init == DInit /\ CInit /\ IInit

NextDiscovery ==
    \E host \in HostArgs, replies \in ReplySeqs :
        discover(host, replies)

SpecDiscovery == Init /\ [][NextDiscovery]_vars

\* construction and the typed accessors
NextAccessor ==
    \/ \E desc \in Descriptors, net \in ConstructNets :
          \E root \in RootOutcomes(desc) : Construct(desc, root, net)
    \/ \E c \in 1..Len(ctl), accessor \in Accessors :
          \E net \in NetOutcomes(ActionOf(accessor)) : CallAccessor(c, accessor, net)
    \/ \E c \in 1..Len(ctl), state \in BOOLEAN, net \in NetOutcomes("SetMute") :
          VolumeMute(c, state, net)
    \/ \E c \in 1..Len(ctl), response \in TagResponses, tag \in TagArgs :
          GetResponseTagValue(c, response, tag)

SpecAccessor == Init /\ [][NextAccessor]_vars

\* construction and action invocation
NextSendCmd ==
    \/ \E desc \in Descriptors, net \in ConstructNets :
          \E root \in RootOutcomes(desc) : Construct(desc, root, net)
    \/ \E c \in 1..Len(ctl), state \in BOOLEAN, net \in NetOutcomes("SetMute") :
          VolumeMute(c, state, net)
    \/ \E c \in 1..Len(ctl), action \in SendActions, service_type \in SendServiceTypes,
          omitInstanceId \in BOOLEAN, kwargs \in SendKwargs :
          \E net \in NetOutcomes(action) :
              SendCmd(c, action, service_type, omitInstanceId, kwargs, net)

SpecSendCmd == Init /\ [][NextSendCmd]_vars

\* construction and capability expansion
NextCatalog ==
    \/ \E desc \in Descriptors, net \in ConstructNets :
          \E root \in RootOutcomes(desc) : Construct(desc, root, net)
    \/ \E c \in 1..Len(ctl), init \in BOOLEAN :
          \E fetch \in FetchChoices(services) : GetServices(c, init, fetch)
    \/ \E c \in 1..Len(ctl), service_type \in LookupServiceTypes, action \in LookupActions :
          GetActionParameters(c, service_type, action)
    \/ \E c \in 1..Len(ctl), service_type \in LookupServiceTypes, action \in LookupActions,
          parameter \in LookupParameters :
          GetParameterInfo(c, service_type, action, parameter)
    \/ \E c \in 1..Len(ctl), service_type \in LookupServiceTypes :
          GetActions(c, service_type)

SpecCatalog == Init /\ [][NextCatalog]_vars

\* construction, the power transitions and the typed accessors
NextPower ==
    \/ \E desc \in Descriptors, net \in PowerConstructNets :
          \E root \in RootOutcomes(desc) : Construct(desc, root, net)
    \/ \E c \in 1..Len(ctl), net \in NetOutcomes("SetPowerState") : PowerOn(c, net)
    \/ \E c \in 1..Len(ctl), power_state \in PowerStateArgs,
          net \in NetOutcomes("SetPowerState") : PowerOff(c, power_state, net)
    \/ \E c \in 1..Len(ctl), accessor \in PowerAccessors :
          \E net \in NetOutcomes(ActionOf(accessor)) : CallAccessor(c, accessor, net)

SpecPower == Init /\ [][NextPower]_vars

\* one device of the family: construction, the power transitions, play and
\* the playback details
NextPlayback ==
    \/ \E desc \in {d \in Descriptors : d.host = "d1"}, net \in ConstructNets :
          Construct(desc, PlaybackRoot, net)
    \/ \E c \in 1..Len(ctl), net \in NetOutcomes("SetPowerState") : PowerOn(c, net)
    \/ \E c \in 1..Len(ctl), power_state \in PowerStateArgs,
          net \in NetOutcomes("SetPowerState") : PowerOff(c, power_state, net)
    \/ \E c \in 1..Len(ctl), nets \in PlayNets : TrnsprtPlay(c, nets)
    \/ \E c \in 1..Len(ctl) :
          \E nets \in PlaybackNets(navigators[ctl[c].host]) : GetPlaybackDetails(c, nets)
    \/ \E c \in 1..Len(ctl), nets \in TrackNets : GetCurrentTrackInfo(c, nets)

SpecPlayback == Init /\ [][NextPlayback]_vars

\* discovery, construction, expansion and action invocation followed through
\* their network calls; time passes and an expired timeout is raised, while
\* a peer is free never to answer
NextBlocking ==
    \/ \E host \in BlockingHosts : SendUdp(host)
    \/ Tick
    \/ \E reply \in BlockingReplies : Recvfrom(reply)
    \/ RecvfromTimesOut
    \/ \E desc \in BlockingDescriptors : OpenRoot(desc)
    \/ \E c \in 1..Len(ctl), init \in BOOLEAN : OpenScpd(c, init)
    \/ \E req \in BlockingRequests : OpenRequest(req)
    \/ UrlopenReturns
    \/ UrlopenTimesOut

SpecBlocking ==
    /\ Init
    /\ [][NextBlocking]_vars
    /\ WF_vars(Tick)
    /\ WF_vars(RecvfromTimesOut)
    /\ WF_vars(UrlopenTimesOut)

----------------------------------------------------------------------------
(* Properties of discovery *)

IsPrefix(s, t) == Len(s) <= Len(t) /\ SubSeq(t, 1, Len(s)) = s

\* the entries the last discover call added to the device list
AddedByCall == SubSeq(devices, Len(dcall.before) + 1, Len(devices))

\* a reply from host h whose server header starts with the family prefix
QualifyingReplyFrom(h, replies) ==
    \E i \in 1..Len(replies) :
        /\ replies[i].addr[1] = h
        /\ KeyServer \in DOMAIN ParsedDatagram[replies[i].data]
        /\ startswith(ParsedDatagram[replies[i].data][KeyServer], PrefixStreamMagic)

(* C1: after any sequence of discover calls, with any replies, every entry
   of the returned list has a server header that starts with "StreamMagic". *)
C1_ReturnedEntriesAreStreamMagic ==
    dcall.ret.kind = "list" =>
        \A i \in 1..Len(dcall.ret.list) :
            /\ KeyServer \in DOMAIN dcall.ret.list[i].data
            /\ startswith(dcall.ret.list[i].data[KeyServer], PrefixStreamMagic)

\* a later call that returned a list although a reply of another family,
\* naming StreamMagic further inside its server header, was received
C1_Witness ==
    /\ dcall.ret.kind = "list"
    /\ dcall.before # <<>>
    /\ Len(dcall.ret.list) > Len(dcall.before)
    /\ \E i \in 1..Len(dcall.replies) : dcall.replies[i].data = "DgOther"

(* C2 (as claimed): discover(host=h) returns an empty/null result whenever
   no qualifying reply from h arrives, in any state of the instance; when a
   qualifying reply from h arrives, the result has an entry with address h. *)
C2_HostFilteredResult ==
    (dcall.called /\ dcall.host # None /\ dcall.ret.kind # "raise") =>
        IF QualifyingReplyFrom(dcall.host, dcall.replies)
        THEN /\ dcall.ret.kind = "list"
             /\ \E i \in 1..Len(dcall.ret.list) : dcall.ret.list[i].addr[1] = dcall.host
        ELSE dcall.ret.kind = "None" \/ dcall.ret.list = <<>>

(* C3 (as claimed): in a discover call without host, the entries the call
   adds to the device list never include two with the same address. *)
C3_NoHostCallAddsDistinctAddresses ==
    (dcall.called /\ dcall.host = None) =>
        \A i, j \in 1..Len(AddedByCall) :
            AddedByCall[i].addr = AddedByCall[j].addr => i = j

(* C4: repeated discover calls append: the list a call returns has the list
   held before the call as a prefix, and the list held after any call,
   returning or raising, still starts with it. *)
C4_CallsAppend ==
    /\ IsPrefix(dcall.before, devices)
    /\ dcall.ret.kind = "list" => IsPrefix(dcall.before, dcall.ret.list)

\* a call on an instance that already held entries returned a longer list
C4_Witness ==
    /\ dcall.ret.kind = "list"
    /\ dcall.before # <<>>
    /\ Len(dcall.ret.list) > Len(dcall.before)
    /\ dcall.host # None

----------------------------------------------------------------------------
(* Properties of the device controller *)

Range(seq) == {seq[i] : i \in 1..Len(seq)}

ParamTags(call) == [k \in 1..Len(call.soapBody.params) |-> call.soapBody.params[k].tag]

(* C5 (as claimed): each controller owns its service map and action catalog:
   constructing a controller for another device, or running capability
   expansion on it, never changes the service map or the action catalog
   observed through a previously constructed controller. *)
C5_ControllersOwnTheirMaps ==
    [][\A c \in 1..Len(ctl) :
          (last'.op \in {"__init__", "get_services"} /\ last'.host # ctl[c].host) =>
              /\ ServicesSeenBy(c)' = ServicesSeenBy(c)
              /\ ActionsSeenBy(c)' = ActionsSeenBy(c)]_vars

(* C6: a _send_cmd call for a service type that has no ServiceRecord fails,
   and no HTTP request is dispatched for it. *)
C6_UnknownServiceTypeFails ==
    \A i \in 1..Len(last.calls) :
        last.calls[i].service_type \notin ServiceTypes(services) =>
            /\ last.calls[i].exc # "none"
            /\ ~last.calls[i].dispatched
            /\ last.exc # "none"

\* _send_cmd was called directly with a service type no root description named
C6_Witness ==
    /\ last.op = "_send_cmd"
    /\ services # <<>>
    /\ last.calls[1].service_type = URN_Unknown
    /\ last.exc = "TypeError"

(* C7 (as claimed): _send_cmd returns None and propagates no exception for
   every network-level failure of the POST: connection failure, HTTP error
   status, a timeout while connecting and a timeout while reading. *)
C7_NetworkFailureReturnsNone ==
    \A i \in 1..Len(last.calls) :
        (last.calls[i].dispatched /\ last.calls[i].net \in FailureKinds) =>
            /\ last.calls[i].exc = "none"
            /\ last.calls[i].ret = PyNone

(* C8 (as claimed): when the SOAP call of a typed accessor returns None, the
   accessor does not hand the None to the XML decoder and raises no parse
   failure. *)
C8_AccessorsTreatNoneAsNotCompleted ==
    (/\ last.op \in Accessors
     /\ last.calls # <<>>
     /\ last.calls[1].exc = "none"
     /\ last.calls[1].ret = PyNone) =>
        /\ "None" \notin Range(last.parsed)
        /\ last.exc = "none"

(* C9: the SOAP body holds the InstanceID tag first, absent exactly when
   omitInstanceId is requested, then one tag per extra argument in the order
   the caller gave them; volume_mute emits Channel before DesiredMute. *)
C9_ParameterOrder ==
    \A i \in 1..Len(last.calls) :
        LET call == last.calls[i]
        IN  /\ ("InstanceID" \in Range(ParamTags(call))) <=> ~call.omitInstanceId
            /\ ~call.omitInstanceId => ParamTags(call)[1] = "InstanceID"
            /\ LET rest == IF call.omitInstanceId THEN call.soapBody.params
                           ELSE Tail(call.soapBody.params)
               IN  /\ Len(rest) = Len(call.kwargs)
                   /\ \A k \in 1..Len(rest) :
                         rest[k] = Elem(call.kwargs[k].key, call.kwargs[k].val)
            /\ last.op = "volume_mute" =>
                  ParamTags(call) = <<"InstanceID", "Channel", "DesiredMute">>

\* volume_mute dispatched its SetMute request
C9_Witness ==
    /\ last.op = "volume_mute"
    /\ last.calls[1].dispatched
    /\ last.calls[1].action = "SetMute"
    /\ Len(last.calls[1].soapBody.params) = 3

(* C10 (as claimed): once the action catalog is populated, every later
   get_services call, with init true or false, performs no SCPD fetch and
   leaves the catalog unchanged. *)
C10_ExpansionIdempotentOncePopulated ==
    [][(last'.op = "get_services" /\ DOMAIN actions # {}) =>
          (last'.fetches = 0 /\ actions' = actions)]_vars

\* the service types every root description of the device at host advertises
AdvertisedTypes(host) ==
    {t \in {URN_AVTransport, URN_RenderingControl, URN_UuVolControl} :
        \A desc \in Descriptors : desc.host = host =>
            \A root \in RootOutcomes(desc) : root.kind = "xml" =>
                \E i \in 1..Len(root.services) : root.services[i].serviceType = t}

(* C11 (as claimed): get_services(init=True) on a constructed controller
   returns a non-empty set of service types, and the set holds AVTransport
   whenever the root description of the controller's device advertises it. *)
C11_ForcedExpansionListsAdvertisedServices ==
    (last.op = "get_services" /\ last.arg = TRUE /\ last.exc = "none") =>
        /\ last.val.v # {}
        /\ URN_AVTransport \in AdvertisedTypes(last.host) => URN_AVTransport \in last.val.v

\* the <action> nodes of a service's SCPD document that carry the given name
DeclaredNodes(service_type, action) ==
    IF service_type \notin DOMAIN scpd THEN {}
    ELSE {node \in Range(scpd[service_type].actions) : node.name = action}

DeclaredNames(node) == {node.arguments[k].name : k \in 1..Len(node.arguments)}

(* C12 (as claimed): after a capability expansion, for every service type
   and action of a service's SCPD document, get_action_parameters returns
   exactly the argument names the document declares for the action, and
   get_parameter_info returns for each of them the declared direction and
   relatedStateVariable with dataType None. *)
C12_LookupsReturnDeclaredArguments ==
    /\ last.op = "get_action_parameters" =>
          \A node \in DeclaredNodes(last.arg[1], last.arg[2]) :
              /\ last.exc = "none"
              /\ last.val = [t |-> "keys", v |-> DeclaredNames(node)]
    /\ last.op = "get_parameter_info" =>
          \A node \in DeclaredNodes(last.arg[1], last.arg[2]) :
              \A k \in 1..Len(node.arguments) :
                  node.arguments[k].name = last.arg[3] =>
                      /\ last.exc = "none"
                      /\ last.val = [t |-> "dict",
                                     v |-> [direction |-> node.arguments[k].direction,
                                            relatedStateVariable |->
                                                node.arguments[k].relatedStateVariable,
                                            dataType |-> None]]

(* C13: when the fetch of the root description fails with an HTTP or network
   error, construction fails: the constructor raises, no controller object
   comes into being and the service map is left as it was. *)
C13_FailedRootFetchFailsConstruction ==
    [][(last'.op = "__init__" /\ last'.arg = "None") =>
          /\ last'.exc # "none"
          /\ last'.self = 0
          /\ ctl' = ctl
          /\ services' = services]_vars

\* a construction failed on the root fetch while another controller existed
C13_Witness ==
    /\ last.op = "__init__"
    /\ last.arg = "None"
    /\ last.exc = "AttributeError"
    /\ ctl # <<>>

(* C16: power_off with a value other than OFF or IDLE is a no-op: it returns
   None, dispatches no request and leaves the cached power state unchanged. *)
C16_PowerOffRejectsOtherValues ==
    [][(last'.op = "power_off" /\ last'.arg \notin {TxtOFF, TxtIDLE}) =>
          /\ last'.exc = "none"
          /\ last'.val = PyNone
          /\ last'.calls = <<>>
          /\ ctl' = ctl]_vars

\* power_off("ON") was called on a controller whose cache holds a state
C16_Witness ==
    /\ last.op = "power_off"
    /\ last.arg = TxtON
    /\ last.calls = <<>>
    /\ ctl[last.self].pwrstate = PyStr(<<"o","f","f">>)

(* C17: power_on sets the cached power state to "on" and power_off(OFF or
   IDLE) sets it to "off" or "idle", the lowercased requested state, in the
   same way when the SetPowerState request returns a response and when it
   returns None. *)
C17_PowerCallsSetCacheToRequestedState ==
    /\ (last.op = "power_on" /\ last.exc = "none") =>
          ctl[last.self].pwrstate = PyStr(<<"o","n">>)
    /\ (last.op = "power_off" /\ last.arg = TxtOFF /\ last.exc = "none") =>
          ctl[last.self].pwrstate = PyStr(<<"o","f","f">>)
    /\ (last.op = "power_off" /\ last.arg = TxtIDLE /\ last.exc = "none") =>
          ctl[last.self].pwrstate = PyStr(<<"i","d","l","e">>)

\* power_on on a controller constructed in state off, with the request refused
C17_Witness ==
    /\ last.op = "power_on"
    /\ last.calls # <<>>
    /\ last.calls[1].net = "ConnectFailure"
    /\ last.val = PyNone
    /\ ctl[last.self].pwrstate = PyStr(<<"o","n">>)

(* C18 (as claimed): after construction and after any sequence of power_on,
   power_off and accessor calls the cached power state is one of on, off,
   idle or None, for every answer to GetPowerState. *)
C18_CachedPowerStateIsKnown ==
    \A c \in 1..Len(ctl) :
        ctl[c].pwrstate \in {PyStr(<<"o","n">>), PyStr(<<"o","f","f">>),
                             PyStr(<<"i","d","l","e">>), PyNone}

\* the calls of the last operation that were answered with a response
Answered(calls) == \A i \in 1..Len(calls) : calls[i].ret.t = "bytes"

PlayingResponse == PyBytes(<<Elem("CurrentTransportState", <<TxtPLAYING>>)>>)
TransitioningResponse == PyBytes(<<Elem("CurrentTransportState", <<TxtTRANSITIONING>>)>>)

(* C14 (as claimed): get_playback_details returns None when the cached power
   state is not "on"; returns the four fields as empty strings when the
   transport state is TRANSITIONING; and otherwise, for every response of
   the device, a playback document that lacks an expected element included,
   returns a dict with exactly the keys state, format, artist, stream. *)
C14_PlaybackDetailsShape ==
    last.op = "get_playback_details" =>
        IF ctl[last.self].pwrstate # PyStr(<<"o","n">>)
        THEN last.exc = "none" /\ last.val = PyNone
        ELSE IF last.calls[1].ret = TransitioningResponse
        THEN /\ last.exc = "none"
             /\ last.val = [t |-> "dict", v |-> [state |-> "", format |-> "",
                                                  artist |-> "", stream |-> ""]]
        ELSE (/\ Len(last.calls) >= 3
              /\ Answered(last.calls)
              /\ getElementsByTagName(last.calls[3].ret.doc, "RetPlaybackXML") # <<>>) =>
                 /\ last.exc = "none"
                 /\ last.val.t = "dict"
                 /\ DOMAIN last.val.v = {"state", "format", "artist", "stream"}

(* C15 (as claimed): a navigator id lives only inside one
   get_playback_details call: whether the call returns or fails at the query
   or the parsing step, no id it registered is still registered on the
   device when the call has ended, provided no ReleaseNavigator request it
   sent was lost on the network. *)
C15_NoNavigatorOutlivesCall ==
    [][(/\ last'.op = "get_playback_details"
        /\ \A i \in 1..Len(last'.calls) :
              last'.calls[i].action = "ReleaseNavigator" => last'.calls[i].net = "ok") =>
          \A host \in DOMAIN navigators : navigators'[host] \subseteq navigators[host]]_vars

(* C19: trnsprt_play first reads the transport state and sends the
   PLAY_PAUSE key press if and only if the state it read is not PLAYING;
   when it is PLAYING nothing further is sent, and the AVTransport action
   Play is never sent. *)
C19_PlayIsGuarded ==
    last.op = "trnsprt_play" =>
        /\ last.calls # <<>>
        /\ last.calls[1].action = "GetTransportInfo"
        /\ \A i \in 1..Len(last.calls) : last.calls[i].action # "Play"
        /\ \A i \in 2..Len(last.calls) :
              /\ last.calls[i].action = "KeyPressed"
              /\ last.calls[i].kwargs[1] = Kw("Key", "PLAY_PAUSE")
        /\ last.calls[1].ret = PlayingResponse =>
              Len(last.calls) = 1 /\ last.val = PyNone
        /\ (last.calls[1].ret.t = "bytes" /\ last.calls[1].ret # PlayingResponse) =>
              Len(last.calls) = 2 /\ last.calls[2].dispatched
        /\ last.calls[1].ret.t # "bytes" => Len(last.calls) = 1

\* play read a transport state other than PLAYING and sent the key press
C19_Witness ==
    /\ last.op = "trnsprt_play"
    /\ Len(last.calls) = 2
    /\ last.calls[1].ret = TransitioningResponse
    /\ last.calls[2].dispatched
    /\ last.calls[2].service_type = URN_UuVolSimpleRemote

\* the literal of the CurrentMute tag of a GetMute response
CurrentMuteOf(ret) == getElementsByTagName(ret.doc, "CurrentMute")[1].children[1]

(* C20 (as claimed): get_mute_state returns False when CurrentMute is "0"
   and True when it is "1"; for any other literal, and for a response
   without the tag, it returns no boolean but raises. *)
C20_MuteStateDecoding ==
    (last.op = "get_mute_state" /\ last.calls[1].ret.t = "bytes") =>
        IF getElementsByTagName(last.calls[1].ret.doc, "CurrentMute") = <<>>
        THEN last.exc # "none"
        ELSE IF CurrentMuteOf(last.calls[1].ret) = Txt0
        THEN last.exc = "none" /\ last.val = PyBool(FALSE)
        ELSE IF CurrentMuteOf(last.calls[1].ret) = Txt1
        THEN last.exc = "none" /\ last.val = PyBool(TRUE)
        ELSE last.exc # "none"

----------------------------------------------------------------------------
(* Properties of the transport state and of tag extraction *)

TxtPAUSED == <<"P","A","U","S","E","D">>
TxtSTOPPED == <<"S","T","O","P","P","E","D">>
TransportLiterals == {TxtPLAYING, TxtPAUSED, TxtSTOPPED, TxtTRANSITIONING}

(* C21 (as claimed): whenever get_transport_state returns a value, the value
   is one of PLAYING, PAUSED, STOPPED and TRANSITIONING, for every response
   of the device, one without the CurrentTransportState tag included. *)
C21_TransportStateIsALiteral ==
    (last.op = "get_transport_state" /\ last.exc = "none") =>
        /\ last.val.t = "str"
        /\ last.val.v \in TransportLiterals

(* C22 (as claimed): get_current_track_info returns a record with exactly
   the six keys artist, trackTitle, albumArtURI, genre, origTrackNo and
   album for every audio source and every response of the device; when the
   source is not "media player" every value is NOT_IMPLEMENTED and no
   position query is sent. *)
C22_TrackInfoShape ==
    (/\ last.op = "get_current_track_info"
     /\ Answered(last.calls)) =>
        /\ last.exc = "none"
        /\ last.val.t = "dict"
        /\ DOMAIN last.val.v = TrackKeys
        /\ (getElementsByTagName(last.calls[1].ret.doc, "RetAudioSourceValue")
               # <<Elem("RetAudioSourceValue", <<TxtMediaPlayer>>)>>) =>
              /\ \A k \in TrackKeys : last.val.v[k] = PyStr("NOT_IMPLEMENTED")
              /\ \A i \in 1..Len(last.calls) : last.calls[i].action # "GetPositionInfo"

(* C23 (as claimed): _get_response_tag_value returns the text of the first
   element with the tag, and "n/a" when the response has no such element;
   it yields one of these two outcomes for every well-formed response, a
   response whose tag is present without text content included. *)
C23_TagValueOrSentinel ==
    last.op = "_get_response_tag_value" =>
        LET values == getElementsByTagName(last.arg.response.doc, last.arg.tag)
        IN  /\ last.exc = "none"
            /\ values = <<>> => last.val = PyStr(TxtNA)
            /\ (values # <<>> /\ values[1].children # <<>>) =>
                  last.val = PyStr(values[1].children[1])

(* C28 (as claimed): get_playback_details sends ReleaseNavigator if and only
   if the answer of the device to IsRegisteredNavigatorId says that the
   handle is still registered; when the device answers that it is not, no
   release request is sent. *)
C28_ReleaseFollowsRegistration ==
    last.op = "get_playback_details" =>
        \A i \in 1..Len(last.calls) :
            (/\ last.calls[i].action = "IsRegisteredNavigatorId"
             /\ last.calls[i].ret.t = "bytes") =>
                LET answer == get_response_tag_value(last.calls[i].ret, "IsRegistered")
                    sent == \E j \in 1..Len(last.calls) :
                                last.calls[j].action = "ReleaseNavigator"
                IN  /\ answer.val = Txt1 => sent
                    /\ answer.val = Txt0 => ~sent

----------------------------------------------------------------------------
(* Properties of reply decoding and of the handling of replies *)

\* a header line cut at its first ": " only: the lowercased key and all
\* that follows the separator; the empty string without a separator
CutAtFirstSeparator(line) ==
    LET i == Find(line, SepColonSpace)
    IN  IF i = 0 THEN [key |-> lower(line), val |-> <<>>]
        ELSE [key |-> lower(SubSeq(line, 1, i - 1)),
              val |-> SubSeq(line, i + Len(SepColonSpace), Len(line))]

RECURSIVE HeadersCutAtFirst(_, _)
HeadersCutAtFirst(data, lines) ==
    IF lines = <<>> THEN data
    ELSE LET kv == CutAtFirstSeparator(Head(lines))
         IN  HeadersCutAtFirst(DictUpdate(data, kv.key, kv.val), Tail(lines))

\* the headers of every datagram with the first line discarded and every
\* later line cut at its first separator
CutDatagram ==
    [d \in Datagrams |-> HeadersCutAtFirst(<<>>, Tail(splitlines(DatagramText(d))))]

(* C24 (as claimed): each reply is decoded by discarding its first line and
   splitting every later line at its first ": " only, so that the value is
   all that follows that separator, also when the value contains ": "; keys
   are lowercased and a line without a value maps its key to "". *)
C24_HeadersSplitAtFirstSeparator ==
    \A i \in 1..Len(AddedByCall) :
        \E j \in 1..Len(dcall.replies) :
            /\ dcall.replies[j].addr = AddedByCall[i].addr
            /\ AddedByCall[i].data = CutDatagram[dcall.replies[j].data]

(* C30 (as claimed): a reply that carries no server header does not qualify
   and is skipped: the discover call still completes and returns the
   qualifying replies received in the same call. *)
C30_ReplyWithoutServerIsSkipped ==
    (/\ dcall.called
     /\ \E j \in 1..Len(dcall.replies) :
           KeyServer \notin DOMAIN ParsedDatagram[dcall.replies[j].data]) =>
        /\ dcall.exc = "none"
        /\ \A j \in 1..Len(dcall.replies) :
              (/\ dcall.host \in {None, dcall.replies[j].addr[1]}
               /\ QualifyingReplyFrom(dcall.replies[j].addr[1], <<dcall.replies[j]>>)) =>
                  \E i \in 1..Len(AddedByCall) :
                      AddedByCall[i].addr = dcall.replies[j].addr

----------------------------------------------------------------------------
(* Properties of capability expansion *)

(* C27 (as claimed): get_services calls itself at most once: for every
   device, one whose SCPD documents leave the catalog empty after a fetch
   included, a get_services call ends normally and performs at most one
   expansion pass, that is at most one SCPD fetch for each service. *)
C27_AtMostOneExpansionPass ==
    last.op = "get_services" =>
        /\ last.exc # "RecursionError"
        /\ last.fetches <= Len(services)

(* C29 (as claimed): after expansion, get_actions(serviceType) returns every
   action the SCPD document of the service defines, actions with no
   arguments included, and get_action_parameters of such an action returns
   the empty set. *)
C29_ActionsWithoutArgumentsAreListed ==
    /\ (last.op = "get_actions" /\ last.arg \in DOMAIN scpd) =>
          /\ last.exc = "none"
          /\ {node.name : node \in Range(scpd[last.arg].actions)} \subseteq last.val.v
    /\ last.op = "get_action_parameters" =>
          \A node \in DeclaredNodes(last.arg[1], last.arg[2]) :
              node.arguments = <<>> =>
                  /\ last.exc = "none"
                  /\ last.val = [t |-> "keys", v |-> {}]

----------------------------------------------------------------------------
(* Properties of the network calls *)

(* C25 (as claimed): every network call carries an explicit timeout:
   discover, construction (the root fetch), capability expansion (the SCPD
   fetch) and action invocation each come to an end even when the peer
   accepts the request and never responds. *)
C25_NetworkCallsEndWithoutAnswer ==
    (io.call # "none") ~> (io.call = "none" \/ io.replies # <<>>)

(* C26 (as claimed): discover sends exactly one M-SEARCH datagram and stops
   collecting after one bounded window measured from the send: the call
   ends also when reply datagrams keep arriving, each less than the timeout
   after the previous one. *)
C26_DiscoverEndsAfterOneWindow ==
    /\ [](io.call = "recvfrom" => io.sent = 1)
    /\ (io.call = "recvfrom") ~> (io.call = "none")

----------------------------------------------------------------------------
(* Properties of the service map built at construction *)

\* the base the claim resolves the relative URLs of a root description
\* against: the urlBase value, or scheme://host of the root URL
ClaimedBase(root, location) ==
    IF root.urlBase # <<>> THEN root.urlBase[1].children[1]
    ELSE location.scheme \o "://" \o location.netloc

(* C31 (as claimed): when the root description contains a urlBase element,
   construction succeeds and the controlURL and SCPDURL of every service
   record are the urlBase value followed by the relative URL of the
   service; when it has none, they are resolved against scheme://host of
   the root URL. *)
C31_ServiceUrlsResolvedAgainstBase ==
    (/\ last.op = "__init__"
     /\ last.root.kind = "xml"
     /\ Answered(last.calls)) =>
        /\ last.exc = "none"
        /\ \A desc \in Descriptors : desc.host = last.host =>
              \A i \in 1..Len(last.root.services) :
                  LET node == last.root.services[i]
                      base == ClaimedBase(last.root, desc.location)
                  IN  /\ node.serviceType \in ServiceTypes(services)
                      /\ get_service_data(services, node.serviceType).ctrlUrl
                            = base \o node.controlURL
                      /\ get_service_data(services, node.serviceType).scpdUrl
                            = base \o node.SCPDURL

=============================================================================
